---------------------------- MODULE Spec2Model ----------------------------
(***************************************************************************)
(* Model of wordlists/goodscraper.py: the shelf-extraction pipeline        *)
(* (resolve_input, load_html, parse_shelf and its helpers,                 *)
(* compute_key_hash, and the pagination loop of main).                     *)
(*                                                                         *)
(* Text is a sequence of one-character strings.  A Python value that may   *)
(* be None is None or Some(v).                                             *)
(* An HTML document is the sequence of its <tr> elements, each a record    *)
(* of the cells parse_shelf looks up.                                      *)
(*                                                                         *)
(* CHOOSE r \in {F(v) : v \in {e}} : TRUE is F(e) with e evaluated once.   *)
(***************************************************************************)
EXTENDS Integers, Sequences, FiniteSets, TLC

VARIABLES
    pc,             \* position of main(): "start", "local", "single", "loop", "dump", "done", "aborted"
    arg,            \* args.shelf, the raw command-line argument
    files,          \* the paths for which os.path.exists is true
    resolved,       \* resolve_input(args.shelf)
    page,           \* the page counter of the pagination loop
    all_books,      \* the records accumulated by the pagination loop
    books,          \* the variable `books` of main (None until assigned)
    fetchLog,       \* every load_html call so far, in order
    parses,         \* number of parse_shelf calls so far
    stdout,         \* what json.dump has written (None until it runs)
    quad1, quad2,   \* two (source, external_id, title, authors) quadruples
    digest1, digest2,   \* their compute_key_hash results
    date_text,      \* the text of a date_pub cell
    published_year, \* extract_year_from_date(date_text)
    html,           \* a document handed to parse_shelf
    parsed          \* parse_shelf(html)

mainVars == <<pc, arg, files, resolved, page, all_books, books, fetchLog, parses, stdout>>
hashVars == <<quad1, quad2, digest1, digest2>>
yearVars == <<date_text, published_year>>
parseVars == <<html, parsed>>
vars == <<pc, arg, files, resolved, page, all_books, books, fetchLog, parses, stdout,
          quad1, quad2, digest1, digest2, date_text, published_year, html, parsed>>

-----------------------------------------------------------------------------
(* Optional values and text helpers *)

None == [some |-> FALSE]
Some(x) == [some |-> TRUE, val |-> x]
IsNone(o) == ~o.some
Get(o) == o.val

\* all sequences over S of length at most n
RECURSIVE SeqsUpTo(_, _)
SeqsUpTo(S, n) ==
    IF n = 0 THEN {<<>>}
    ELSE LET shorter == SeqsUpTo(S, n - 1)
         IN  shorter \cup {Append(s, c) : s \in {t \in shorter : Len(t) = n - 1}, c \in S}

DecimalDigits == {"0", "1", "2", "3", "4", "5", "6", "7", "8", "9"}
\* "SUP2" stands for U+00B2 SUPERSCRIPT TWO: Numeric_Type=Digit, not Decimal
SuperscriptDigits == {"SUP2"}
Whitespace == {" "}

DigitValue(c) ==
    CASE c = "0" -> 0 [] c = "1" -> 1 [] c = "2" -> 2 [] c = "3" -> 3 [] c = "4" -> 4
      [] c = "5" -> 5 [] c = "6" -> 6 [] c = "7" -> 7 [] c = "8" -> 8 [] c = "9" -> 9

\* int() of a run of decimal digits
RECURSIVE DigitsAcc(_, _)
DigitsAcc(s, acc) == IF s = <<>> THEN acc ELSE DigitsAcc(Tail(s), 10 * acc + DigitValue(s[1]))
DigitsToInt(s) == DigitsAcc(s, 0)

\* str.startswith
StartsWith(s, p) == Len(s) >= Len(p) /\ SubSeq(s, 1, Len(p)) = p

Occurs(s, p) == \E i \in 1..(Len(s) - Len(p) + 1) : SubSeq(s, i, i + Len(p) - 1) = p

\* the `in` operator on str
Contains(s, p) == \E v \in {s} : Occurs(v, p)

\* str.strip(): drop leading and trailing whitespace
FirstInk(s) == {i \in 1..Len(s) : s[i] \notin Whitespace /\ \A j \in 1..(i - 1) : s[j] \in Whitespace}
LastInk(s) == {i \in 1..Len(s) : s[i] \notin Whitespace /\ \A j \in (i + 1)..Len(s) : s[j] \in Whitespace}
Trimmed(s) ==
    IF FirstInk(s) = {} THEN <<>>
    ELSE SubSeq(s, CHOOSE i \in FirstInk(s) : TRUE, CHOOSE i \in LastInk(s) : TRUE)
Strip(s) == CHOOSE r \in {Trimmed(v) : v \in {s}} : TRUE

\* sep.join(parts)
RECURSIVE Join(_, _)
Join(parts, sep) ==
    IF parts = <<>> THEN <<>>
    ELSE IF Len(parts) = 1 THEN parts[1]
    ELSE parts[1] \o sep \o Join(Tail(parts), sep)

\* index of the first occurrence of character c in s, 0 when there is none
Least(hits) == IF hits = {} THEN 0 ELSE CHOOSE i \in hits : \A j \in hits : i <= j
IndexOf(s, c) == CHOOSE r \in {Least({i \in 1..Len(v) : v[i] = c}) : v \in {s}} : TRUE

-----------------------------------------------------------------------------
(* resolve_input *)

GOODREADS_BASE == <<"h", "t", "t", "p", "s", ":", "/", "/", "w", "w", "w", ".", "g", "o", "o", "d", "r", "e", "a", "d", "s", ".", "c", "o", "m">>
REVIEW_LIST_PATH == <<"/", "r", "e", "v", "i", "e", "w", "/", "l", "i", "s", "t", "/">>
SHELF_READ_QUERY == <<"?", "s", "h", "e", "l", "f", "=", "r", "e", "a", "d">>
HTTP_PREFIX == <<"h", "t", "t", "p", ":", "/", "/">>
HTTPS_PREFIX == <<"h", "t", "t", "p", "s", ":", "/", "/">>

os_path_exists(path) == path \in files

\* str.isdigit(): non-empty and every character has Numeric_Type Digit or Decimal
str_isdigit(s) == s # <<>> /\ \A i \in 1..Len(s) : s[i] \in DecimalDigits \cup SuperscriptDigits

resolve_input(a) ==
    IF os_path_exists(a) THEN a
    ELSE IF str_isdigit(a) THEN GOODREADS_BASE \o REVIEW_LIST_PATH \o a \o SHELF_READ_QUERY
    ELSE IF StartsWith(a, HTTP_PREFIX) \/ StartsWith(a, HTTPS_PREFIX) THEN a
    ELSE a

-----------------------------------------------------------------------------
(* extract_int_from_text, extract_year_from_date *)

IsDecimal(c) == c \in DecimalDigits

\* s with every occurrence of character c removed (str.replace(c, ""))
RECURSIVE Without(_, _)
Without(s, c) ==
    IF s = <<>> THEN <<>>
    ELSE IF s[1] = c THEN Without(Tail(s), c)
    ELSE <<s[1]>> \o Without(Tail(s), c)

\* the longest prefix of s made of decimal digits
RECURSIVE DigitPrefix(_)
DigitPrefix(s) ==
    IF s # <<>> /\ IsDecimal(s[1]) THEN <<s[1]>> \o DigitPrefix(Tail(s)) ELSE <<>>

\* re.findall(r"\d+", s): the maximal digit runs, left to right
RECURSIVE RunsFrom(_, _)
RunsFrom(s, run) ==
    IF s = <<>> THEN (IF run = <<>> THEN <<>> ELSE <<run>>)
    ELSE IF IsDecimal(s[1]) THEN RunsFrom(Tail(s), Append(run, s[1]))
    ELSE (IF run = <<>> THEN <<>> ELSE <<run>>) \o RunsFrom(Tail(s), <<>>)
DigitRuns(s) == RunsFrom(s, <<>>)

extract_int_from_text(text) ==
    IF IsNone(text) \/ Get(text) = <<>> THEN None
    ELSE LET digits == DigitRuns(Without(Get(text), ","))
         IN  IF digits = <<>> THEN None ELSE Some(DigitsToInt(digits[1]))

\* re.findall(r"\d{4}", s): non-overlapping matches, scanning left to right
RECURSIVE FourFrom(_, _)
FourFrom(s, run) ==
    IF Len(run) = 4 THEN <<run>> \o FourFrom(s, <<>>)
    ELSE IF s = <<>> THEN <<>>
    ELSE IF IsDecimal(s[1]) THEN FourFrom(Tail(s), Append(run, s[1]))
    ELSE FourFrom(Tail(s), <<>>)
FourDigitMatches(s) == FourFrom(s, <<>>)

\* the year of the last 4-digit run: re.findall(r"\d{4}", text)[-1]
LastFourDigitRunYear(text) ==
    IF IsNone(text) \/ Get(text) = <<>> THEN None
    ELSE LET ms == FourDigitMatches(Get(text))
         IN  IF ms = <<>> THEN None ELSE Some(DigitsToInt(ms[Len(ms)]))

\* re.search(r"(\d{4})", text) takes the leftmost match
extract_year_from_date(text) ==
    IF IsNone(text) \/ Get(text) = <<>> THEN None
    ELSE LET ms == FourDigitMatches(Get(text))
         IN  IF ms = <<>> THEN None ELSE Some(DigitsToInt(ms[1]))

-----------------------------------------------------------------------------
(* compute_key_hash *)

\* hashlib.sha256(raw).hexdigest(), taken as injective on its input bytes
sha256_hexdigest(raw) == <<"sha256">> \o raw

\* `x or ""`
OrEmpty(o) == IF IsNone(o) THEN <<>> ELSE Get(o)

compute_key_hash(src, ext_id, ttl, auth) ==
    LET parts == <<OrEmpty(src), OrEmpty(ext_id), OrEmpty(ttl), OrEmpty(auth)>>
        raw == Join([i \in 1..4 |-> Strip(parts[i])], <<"|">>)
    IN  sha256_hexdigest(raw)

-----------------------------------------------------------------------------
(* urlparse / parse_qsl / dict / urlencode / urlunparse *)

\* s.partition(c) without the separator: head is s when c does not occur
SplitAt(s, i) ==
    [head |-> IF i = 0 THEN s ELSE SubSeq(s, 1, i - 1),
     tail |-> IF i = 0 THEN <<>> ELSE SubSeq(s, i + 1, Len(s))]
Partition(s, c) == CHOOSE r \in {SplitAt(v, IndexOf(v, c)) : v \in {s}} : TRUE

\* urlparse(url): the fragment is what follows the first "#", the query what
\* follows the first "?" of the rest; scheme, netloc, path and params stay in `base`
UrlRecord(q, frag) == [base |-> q.head, query |-> q.tail, fragment |-> frag]
UrlParts(f) == CHOOSE r \in {UrlRecord(q, f.tail) : q \in {Partition(f.head, "?")}} : TRUE
urlparse(url) == CHOOSE r \in {UrlParts(f) : f \in {Partition(url, "#")}} : TRUE

\* urlparse(url).path: `base` without "scheme://netloc"
SliceFrom(s, i) == IF i = 0 THEN <<>> ELSE SubSeq(s, i, Len(s))
FromSlash(rest) == CHOOSE r \in {SliceFrom(v, IndexOf(v, "/")) : v \in {rest}} : TRUE
PathOf(b) ==
    IF StartsWith(b, HTTPS_PREFIX) THEN FromSlash(SubSeq(b, Len(HTTPS_PREFIX) + 1, Len(b)))
    ELSE IF StartsWith(b, HTTP_PREFIX) THEN FromSlash(SubSeq(b, Len(HTTP_PREFIX) + 1, Len(b)))
    ELSE b
UrlPath(url) == CHOOSE r \in {PathOf(b) : b \in {urlparse(url).base}} : TRUE

\* s.split(c)
RECURSIVE SplitFrom(_, _, _)
SplitFrom(s, c, acc) ==
    IF s = <<>> THEN <<acc>>
    ELSE IF s[1] = c THEN <<acc>> \o SplitFrom(Tail(s), c, <<>>)
    ELSE SplitFrom(Tail(s), c, Append(acc, s[1]))
Split(s, c) == CHOOSE r \in {SplitFrom(v, c, <<>>) : v \in {s}} : TRUE

\* unquote_plus / quote_plus on the characters of the model: "+" stands for a space
UnquotePlus(s) == [i \in 1..Len(s) |-> IF s[i] = "+" THEN " " ELSE s[i]]
QuotePlus(s) == [i \in 1..Len(s) |-> IF s[i] = " " THEN "+" ELSE s[i]]

\* one "name=value" field of a query string as <<name, value>>
FieldPair(nv) == <<UnquotePlus(nv.head), UnquotePlus(nv.tail)>>
QueryField(f) == CHOOSE r \in {FieldPair(nv) : nv \in {Partition(f, "=")}} : TRUE

\* parse_qsl(query): keep_blank_values is False, so a field with an empty
\* value (or no "=") is dropped, as is an empty field
KeepField(kv) == IF kv[2] = <<>> THEN <<>> ELSE <<kv>>
RECURSIVE FieldsToPairs(_)
FieldsToPairs(fs) ==
    IF fs = <<>> THEN <<>>
    ELSE (CHOOSE r \in {KeepField(kv) : kv \in {QueryField(fs[1])}} : TRUE)
             \o FieldsToPairs(Tail(fs))

QueryPairs(q) == IF q = <<>> THEN <<>> ELSE FieldsToPairs(Split(q, "&"))
parse_qsl(query) == CHOOSE r \in {QueryPairs(q) : q \in {query}} : TRUE

HasKey(d, k) == \E i \in 1..Len(d) : d[i][1] = k
Lookup(d, k) == d[CHOOSE i \in 1..Len(d) : d[i][1] = k][2]

\* d[k] = v on an insertion-ordered dict: an existing key keeps its position
DictSet(d, k, v) ==
    IF HasKey(d, k) THEN [i \in 1..Len(d) |-> IF d[i][1] = k THEN <<k, v>> ELSE d[i]]
    ELSE Append(d, <<k, v>>)

\* dict(pairs): a repeated key keeps its first position and its last value
RECURSIVE DictFrom(_, _)
DictFrom(pairs, d) ==
    IF pairs = <<>> THEN d
    ELSE CHOOSE r \in {DictFrom(Tail(pairs), d2) :
                           d2 \in {DictSet(d, pairs[1][1], pairs[1][2])}} : TRUE
DictOf(pairs) == CHOOSE r \in {DictFrom(ps, <<>>) : ps \in {pairs}} : TRUE

\* d.setdefault(k, v)
DictSetDefault(d, k, v) == IF HasKey(d, k) THEN d ELSE Append(d, <<k, v>>)

EncodeFields(d) == [i \in 1..Len(d) |-> QuotePlus(d[i][1]) \o <<"=">> \o QuotePlus(d[i][2])]
urlencode(d) == CHOOSE r \in {Join(fs, <<"&">>) : fs \in {EncodeFields(v) : v \in {d}}} : TRUE

urlunparse(p) ==
    p.base \o (IF p.query = <<>> THEN <<>> ELSE <<"?">> \o p.query)
           \o (IF p.fragment = <<>> THEN <<>> ELSE <<"#">> \o p.fragment)

\* int(s): surrounding whitespace, an optional sign and decimal digits;
\* None stands for ValueError
Unsigned(body, sign) ==
    IF body = <<>> \/ \E i \in 1..Len(body) : ~IsDecimal(body[i]) THEN None
    ELSE Some(sign * DigitsToInt(body))
SignedInt(t) ==
    IF t # <<>> /\ t[1] = "-" THEN Unsigned(Tail(t), 0 - 1)
    ELSE IF t # <<>> /\ t[1] = "+" THEN Unsigned(Tail(t), 1)
    ELSE Unsigned(t, 1)
int(s) == CHOOSE r \in {SignedInt(t) : t \in {Strip(s)}} : TRUE

-----------------------------------------------------------------------------
(* parse_shelf *)

SOURCE_OTHER == <<"O", "T", "H", "E", "R">>
BOOK_SHOW == <<"/", "b", "o", "o", "k", "/", "s", "h", "o", "w", "/">>

\* re.search(r"/book/show/(\d+)", path): leftmost match, longest digit run
BookShowId(path) ==
    LET n == Len(BOOK_SHOW)
        hits == {i \in 1..Len(path) :
                    /\ i + n <= Len(path)
                    /\ SubSeq(path, i, i + n - 1) = BOOK_SHOW
                    /\ IsDecimal(path[i + n])}
    IN  IF hits = {} THEN None
        ELSE Some(DigitPrefix(SubSeq(path, (CHOOSE k \in hits : \A m \in hits : k <= m) + n,
                                     Len(path))))

extract_external_id(book_href) ==
    IF book_href = <<>> THEN None ELSE BookShowId(UrlPath(book_href))

\* the anchors of a cell that carry an href attribute (find("a", href=True))
HrefAnchors(anchors) == SelectSeq(anchors, LAMBDA a : ~IsNone(a.href))

\* does the loop body reach books.append for this <tr>?
RowHasTitleLink(row) ==
    /\ ~IsNone(row.title_td)
    /\ HrefAnchors(Get(row.title_td).anchors) # <<>>

\* ", ".join(a.get_text(strip=True) for a in author_links)
AuthorNames(anchors) == Join([i \in 1..Len(anchors) |-> Strip(anchors[i])], <<",", " ">>)

\* the dict built at lines 238-250; its keyHash, externalId, publishedYear
\* and goodreadsUrl entries are commented out, so those values are not in it
book_obj(src, ext_id, ttl, auth, year, pages, cover, khash) ==
    [source |-> Some(src),
     title |-> Some(ttl),
     authors |-> auth,
     pageCount |-> pages,
     coverUrl |-> cover]

\* one iteration of the loop over rows, for a row that has a title link
parse_row(row) ==
    LET title_link == HrefAnchors(Get(row.title_td).anchors)[1]
        title == Strip(title_link.text)
        book_href == Get(title_link.href)
        external_id == extract_external_id(book_href)
        authors ==
            IF IsNone(row.author_td) THEN None
            ELSE LET td == Get(row.author_td)
                 IN  IF td.anchors # <<>> THEN Some(AuthorNames(td.anchors))
                     ELSE IF Strip(td.text) = <<>> THEN None
                     ELSE Some(Strip(td.text))
        cover_url ==
            IF IsNone(row.cover_td) THEN None
            ELSE LET img == Get(row.cover_td).img
                 IN  IF IsNone(img) \/ IsNone(Get(img).src) \/ Get(Get(img).src) = <<>>
                     THEN None
                     ELSE Get(img).src
        page_count ==
            IF IsNone(row.num_pages_td) THEN None
            ELSE extract_int_from_text(Some(Strip(Get(row.num_pages_td))))
        published_year_ ==
            IF IsNone(row.date_pub_td) THEN None
            ELSE extract_year_from_date(Some(Strip(Get(row.date_pub_td))))
        source == SOURCE_OTHER
        key_hash == compute_key_hash(Some(source), external_id, Some(title), authors)
    IN  book_obj(source, external_id, title, authors, published_year_, page_count,
                 cover_url, key_hash)

\* the loop over rows leaving at the first row it should only skip
RECURSIVE parse_shelf_stops_at_skipped_row(_)
parse_shelf_stops_at_skipped_row(rows) ==
    IF rows = <<>> THEN <<>>
    ELSE IF rows[1].bookalike /\ RowHasTitleLink(rows[1])
         THEN <<parse_row(rows[1])>> \o parse_shelf_stops_at_skipped_row(Tail(rows))
    ELSE <<>>

\* soup.find_all("tr", class_="bookalike"), then the loop body per row
RECURSIVE parse_shelf(_)
parse_shelf(rows) ==
    IF rows = <<>> THEN <<>>
    ELSE IF rows[1].bookalike /\ RowHasTitleLink(rows[1])
         THEN <<parse_row(rows[1])>> \o parse_shelf(Tail(rows))
    ELSE parse_shelf(Tail(rows))

-----------------------------------------------------------------------------
(* main: the inputs of a run *)

MaxRows == 2        \* rows of one served document
MaxPages == 2       \* pages of the upstream shelf that hold any row

SHELF_MARKER == <<"g", "o", "o", "d", "r", "e", "a", "d", "s", ".", "c", "o", "m", "/", "r", "e", "v", "i", "e", "w", "/", "l", "i", "s", "t">>
PER_PAGE_KEY == <<"p", "e", "r", "_", "p", "a", "g", "e">>
PAGE_KEY == <<"p", "a", "g", "e">>
DEFAULT_PER_PAGE == <<"1", "0">>

ShelfUrl == <<"h", "t", "t", "p", "s", ":", "/", "/", "w", "w", "w", ".", "g", "o", "o", "d", "r", "e", "a", "d", "s", ".", "c", "o", "m", "/", "r", "e", "v", "i", "e", "w", "/", "l", "i", "s", "t", "/", "7">>
PlainUrl == <<"h", "t", "t", "p", "s", ":", "/", "/", "e", "x", "a", "m", "p", "l", "e", ".", "c", "o", "m", "/", "x">>
LocalName == <<"s", ".", "h", "t", "m", "l">>
UserId == <<"7">>

\* query strings put after ShelfUrl
QuerySamples ==
    { <<>>,
      <<"s", "h", "e", "l", "f", "=", "r", "e", "a", "d">>,
      <<"p", "e", "r", "_", "p", "a", "g", "e", "=", "2">>,
      <<"p", "e", "r", "_", "p", "a", "g", "e", "=", "1">>,
      <<"p", "e", "r", "_", "p", "a", "g", "e", "=", "0">>,
      <<"p", "e", "r", "_", "p", "a", "g", "e", "=", "-", "1">>,
      <<"p", "e", "r", "_", "p", "a", "g", "e", "=", "x">>,
      <<"s", "h", "e", "l", "f", "=", "r", "e", "a", "d", "&", "p", "e", "r", "_", "p", "a", "g", "e", "=", "2", "&", "p", "a", "g", "e", "=", "5">>,
      <<"s", "h", "e", "l", "f", "=", "r", "e", "a", "d", "&", "s", "o", "r", "t", "=", "&", "p", "e", "r", "_", "p", "a", "g", "e", "=", "2">>,
      <<"s", "h", "e", "l", "f", "=", "a", "&", "s", "h", "e", "l", "f", "=", "b">>,
      <<"p", "e", "r", "_", "p", "a", "g", "e", "=", "1", "&", "p", "e", "r", "_", "p", "a", "g", "e", "=", "2", "#", "t", "o", "p">> }

MainArgs ==
    {UserId, LocalName, PlainUrl}
        \cup {ShelfUrl \o (IF q = <<>> THEN <<>> ELSE <<"?">> \o q) : q \in QuerySamples}

DigitChar(n) ==
    CASE n = 0 -> "0" [] n = 1 -> "1" [] n = 2 -> "2" [] n = 3 -> "3" [] n = 4 -> "4"
      [] n = 5 -> "5" [] n = 6 -> "6" [] n = 7 -> "7" [] n = 8 -> "8" [] n = 9 -> "9"

\* the <tr> of entry j of shelf page p: only the title cell, linking to the book
EntryRow(p, j) ==
    [bookalike |-> TRUE,
     title_td |-> Some([anchors |->
         <<[href |-> Some(BOOK_SHOW \o <<DigitChar(p % 10), DigitChar(j % 10)>>),
            text |-> <<"T", DigitChar(p % 10), DigitChar(j % 10)>>]>>]),
     author_td |-> None, cover_td |-> None, num_pages_td |-> None, date_pub_td |-> None]

\* a <tr class="bookalike"> whose title cell holds no link
JunkRow ==
    [bookalike |-> TRUE, title_td |-> Some([anchors |-> <<>>]),
     author_td |-> None, cover_td |-> None, num_pages_td |-> None, date_pub_td |-> None]

\* the documents the source may serve for page p: up to MaxRows rows, each
\* an entry or a junk row; past page MaxPages the shelf holds no entry
DocsFor(p) ==
    UNION { { [j \in 1..n |-> IF j \in S THEN EntryRow(p, j) ELSE JunkRow] :
                S \in (IF p <= MaxPages THEN SUBSET (1..n) ELSE {{}}) } :
            n \in 0..MaxRows }

-----------------------------------------------------------------------------
(* main: the run *)

\* str(n) for n >= 0
RECURSIVE str(_)
str(n) == IF n < 10 THEN <<DigitChar(n)>> ELSE str(n \div 10) \o <<DigitChar(n % 10)>>

\* lines 281-287: the query dict of the page to fetch
WithPageParams(qs, pg) ==
    CHOOSE r \in {DictSet(d, PAGE_KEY, str(pg)) :
                     d \in {DictSetDefault(qs, PER_PAGE_KEY, DEFAULT_PER_PAGE)}} : TRUE
PageQs(url, pg) ==
    CHOOSE r \in {WithPageParams(qs, pg) : qs \in {DictOf(parse_qsl(urlparse(url).query))}} : TRUE

\* line 289
PageUrl(url, pg) ==
    CHOOSE r \in {urlunparse(p) :
                     p \in {[urlparse(url) EXCEPT !.query = urlencode(PageQs(url, pg))]}} : TRUE

\* lines 300-303: per_page as the stop test reads it (None after ValueError)
PerPage(qs) == CHOOSE r \in {int(v) : v \in {Lookup(qs, PER_PAGE_KEY)}} : TRUE

LastPageWhenFull(pp, recs) == IsNone(pp) \/ Len(recs) <= Get(pp)

\* line 305: is this page the last one?
LastPage(pp, recs) == IsNone(pp) \/ Len(recs) < Get(pp)

NextPageSkipsOne(pg) == pg + 2

\* line 308
NextPage(pg) == pg + 1

\* the page number the source reads from a request (page 1 when there is none)
PageNumber(n) == IF IsNone(n) THEN 1 ELSE IF Get(n) < 1 THEN 1 ELSE Get(n)
PageParam(qs) ==
    IF HasKey(qs, PAGE_KEY)
    THEN CHOOSE r \in {PageNumber(n) : n \in {int(Lookup(qs, PAGE_KEY))}} : TRUE
    ELSE 1
RequestedPage(url) ==
    CHOOSE r \in {PageParam(qs) : qs \in {DictOf(parse_qsl(urlparse(url).query))}} : TRUE

Idle == None

IdleHash == quad1 = Idle /\ quad2 = Idle /\ digest1 = Idle /\ digest2 = Idle
IdleYear == date_text = Idle /\ published_year = Idle
IdleParse == html = Idle /\ parsed = Idle
IdleMain ==
    /\ pc = "idle" /\ arg = Idle /\ files = {} /\ resolved = Idle /\ page = 0
    /\ all_books = <<>> /\ books = Idle /\ fetchLog = <<>> /\ parses = 0 /\ stdout = Idle

Init ==
    /\ pc = "start"
    /\ arg \in MainArgs
    /\ files \in {{}, {arg}}
    /\ resolved = None
    /\ page = 0
    /\ all_books = <<>>
    /\ books = None
    /\ fetchLog = <<>>
    /\ parses = 0
    /\ stdout = None
    /\ IdleHash /\ IdleYear /\ IdleParse

\* lines 270, 275, 311: the branch main takes for a resolved reference
BranchShelfFirst(r) ==
    IF Contains(r, SHELF_MARKER) THEN "loop"
    ELSE IF os_path_exists(r) THEN "local"
    ELSE "single"

Branch(r) ==
    IF os_path_exists(r) THEN "local"
    ELSE IF Contains(r, SHELF_MARKER) THEN "loop"
    ELSE "single"

\* lines 267-277: resolve the argument and enter the branch
Resolve ==
    /\ pc = "start"
    /\ \E r \in {resolve_input(arg)} :
       \E branch \in {Branch(r)} :
          /\ resolved' = Some(r)
          /\ pc' = branch
          /\ IF branch = "loop"
             THEN page' = 1 /\ all_books' = <<>>
             ELSE UNCHANGED <<page, all_books>>
    /\ UNCHANGED <<arg, files, books, fetchLog, parses, stdout>>
    /\ UNCHANGED <<hashVars, yearVars, parseVars>>

Fetched(url, pg, per_page, records) ==
    [url |-> url, ok |-> TRUE, page |-> pg, per_page |-> per_page, records |-> records]

Failed(url, pg) ==
    [url |-> url, ok |-> FALSE, page |-> pg, per_page |-> None, records |-> <<>>]

\* lines 271-272: an existing local file is loaded and parsed once
LoadLocal ==
    /\ pc = "local"
    /\ \E doc \in DocsFor(1) :
       \E parsed_books \in {parse_shelf(doc)} :
          /\ fetchLog' = Append(fetchLog, Fetched(Get(resolved), 0, None, parsed_books))
          /\ books' = Some(parsed_books)
    /\ parses' = parses + 1
    /\ pc' = "dump"
    /\ UNCHANGED <<arg, files, resolved, page, all_books, stdout>>
    /\ UNCHANGED <<hashVars, yearVars, parseVars>>

\* lines 312-313: any other reference is fetched and parsed once
LoadSingle ==
    /\ pc = "single"
    /\ \E doc \in DocsFor(1) :
       \E parsed_books \in {parse_shelf(doc)} :
          /\ fetchLog' = Append(fetchLog, Fetched(Get(resolved), 0, None, parsed_books))
          /\ books' = Some(parsed_books)
    /\ parses' = parses + 1
    /\ pc' = "dump"
    /\ UNCHANGED <<arg, files, resolved, page, all_books, stdout>>
    /\ UNCHANGED <<hashVars, yearVars, parseVars>>

\* lines 279-310: one pass through the body of `while True`, the fetch succeeding
LoopIteration ==
    /\ pc = "loop"
    /\ \E qs \in {PageQs(Get(resolved), page)} :
       \E page_url \in {PageUrl(Get(resolved), page)} :
       \E served \in {RequestedPage(page_url)} :
       \E doc \in DocsFor(served) :
       \E page_books \in {parse_shelf(doc)} :
       \E per_page \in {PerPage(qs)} :
          /\ fetchLog' = Append(fetchLog, Fetched(page_url, page, per_page, page_books))
          /\ IF page_books = <<>>
             THEN /\ books' = Some(all_books)
                  /\ pc' = "dump"
                  /\ UNCHANGED <<all_books, page>>
             ELSE /\ all_books' = all_books \o page_books
                  /\ IF LastPage(per_page, page_books)
                     THEN /\ books' = Some(all_books \o page_books)
                          /\ pc' = "dump"
                          /\ page' = page
                     ELSE /\ page' = NextPage(page)
                          /\ UNCHANGED <<books, pc>>
    /\ parses' = parses + 1
    /\ UNCHANGED <<arg, files, resolved, stdout>>
    /\ UNCHANGED <<hashVars, yearVars, parseVars>>

\* a failed page fetch that ends the loop and keeps what was gathered
FetchFailsKeepsPartial ==
    /\ pc \in {"local", "single", "loop"}
    /\ \E url \in {IF pc = "loop" THEN PageUrl(Get(resolved), page) ELSE Get(resolved)} :
          fetchLog' = Append(fetchLog, Failed(url, page))
    /\ IF pc = "loop"
       THEN pc' = "dump" /\ books' = Some(all_books)
       ELSE pc' = "aborted" /\ UNCHANGED books
    /\ UNCHANGED <<arg, files, resolved, page, all_books, parses, stdout>>
    /\ UNCHANGED <<hashVars, yearVars, parseVars>>

\* lines 64, 89-102: load_html raises (OSError, a requests exception or
\* SystemExit); nothing in main catches it, so the run ends without output
FetchFails ==
    /\ pc \in {"local", "single", "loop"}
    /\ \E url \in {IF pc = "loop" THEN PageUrl(Get(resolved), page) ELSE Get(resolved)} :
          fetchLog' = Append(fetchLog, Failed(url, page))
    /\ pc' = "aborted"
    /\ UNCHANGED <<arg, files, resolved, page, all_books, books, parses, stdout>>
    /\ UNCHANGED <<hashVars, yearVars, parseVars>>

\* line 315
Dump ==
    /\ pc = "dump"
    /\ stdout' = books
    /\ pc' = "done"
    /\ UNCHANGED <<arg, files, resolved, page, all_books, books, fetchLog, parses>>
    /\ UNCHANGED <<hashVars, yearVars, parseVars>>

Next == Resolve \/ LoadLocal \/ LoadSingle \/ LoopIteration \/ FetchFails \/ Dump

Spec == Init /\ [][Next]_vars

\* main runs to its end: a step is taken whenever one is possible
FairSpec == Spec /\ WF_vars(Next)

-----------------------------------------------------------------------------
(* resolve_input on its own *)

MaxArgLen == 3
ArgChars == {"7", "0", "SUP2", "a", "/"}
ResolveArgs ==
    {p \o b : p \in {<<>>, HTTP_PREFIX, HTTPS_PREFIX}, b \in SeqsUpTo(ArgChars, MaxArgLen)}

InitResolve ==
    /\ pc = "resolve"
    /\ arg \in ResolveArgs
    /\ files \in {{}, {arg}}
    /\ resolved = None
    /\ page = 0 /\ all_books = <<>> /\ books = Idle /\ fetchLog = <<>>
    /\ parses = 0 /\ stdout = Idle
    /\ IdleHash /\ IdleYear /\ IdleParse

ResolveInput ==
    /\ pc = "resolve"
    /\ resolved' = Some(resolve_input(arg))
    /\ pc' = "resolved"
    /\ UNCHANGED <<arg, files, page, all_books, books, fetchLog, parses, stdout>>
    /\ UNCHANGED <<hashVars, yearVars, parseVars>>

ResolveSpec == InitResolve /\ [][ResolveInput]_vars

-----------------------------------------------------------------------------
(* compute_key_hash on its own *)

FieldSamples == {None, Some(<<>>), Some(<<"a">>), Some(<<"|">>), Some(<<" ", "a">>)}
Quads == [source : FieldSamples, external_id : FieldSamples,
          title : FieldSamples, authors : FieldSamples]

KeyHashOf(q) == compute_key_hash(q.source, q.external_id, q.title, q.authors)

InitHash ==
    /\ IdleMain
    /\ quad1 \in Quads
    /\ quad2 = Idle /\ digest1 = Idle /\ digest2 = Idle
    /\ IdleYear /\ IdleParse

HashPair ==
    /\ quad2 = Idle
    /\ \E q \in Quads : quad2' = q
    /\ digest1' = Some(KeyHashOf(quad1))
    /\ digest2' = Some(KeyHashOf(quad2'))
    /\ UNCHANGED quad1
    /\ UNCHANGED <<mainVars, yearVars, parseVars>>

HashSpec == InitHash /\ [][HashPair]_vars

-----------------------------------------------------------------------------
(* extract_year_from_date on its own *)

MaxDateLen == 8
DateChars == {"1", "2", " "}

InitYear ==
    /\ IdleMain
    /\ date_text \in {None} \cup {Some(t) : t \in SeqsUpTo(DateChars, MaxDateLen)}
    /\ published_year = None
    /\ IdleHash /\ IdleParse

ExtractYear ==
    /\ published_year = None
    /\ published_year' = Some(extract_year_from_date(date_text))
    /\ UNCHANGED date_text
    /\ UNCHANGED <<mainVars, hashVars, parseVars>>

YearSpec == InitYear /\ [][ExtractYear]_vars

-----------------------------------------------------------------------------
(* parse_shelf on its own *)

MaxParseRows == 2

NoHrefAnchor == [href |-> None, text |-> <<"x">>]
LinkT == [href |-> Some(BOOK_SHOW \o <<"1", "2", ".", "T">>), text |-> <<" ", "T", " ">>]
LinkU == [href |-> Some(<<"/", "u">>), text |-> <<"U">>]

TitleCells ==
    { None,
      Some([anchors |-> <<>>]),
      Some([anchors |-> <<NoHrefAnchor>>]),
      Some([anchors |-> <<LinkT>>]),
      Some([anchors |-> <<NoHrefAnchor, LinkU>>]) }

\* the other cells of a row: all absent, all present with links and digits,
\* present but without a link, an image or a digit
RowDetails ==
    { [author_td |-> None, cover_td |-> None, num_pages_td |-> None, date_pub_td |-> None],
      [author_td |-> Some([anchors |-> <<<<"A", " ">>, <<"B">>>>, text |-> <<"A", " ", "B">>]),
       cover_td |-> Some([img |-> Some([src |-> Some(<<"c">>)])]),
       num_pages_td |-> Some(<<"1", ",", "0", "2", "4", " ", "p">>),
       date_pub_td |-> Some(<<"M", " ", "1", "8", ",", " ", "2", "0", "2", "5">>)],
      [author_td |-> Some([anchors |-> <<>>, text |-> <<" ", "P", " ">>]),
       cover_td |-> Some([img |-> None]),
       num_pages_td |-> Some(<<"N", "/", "A">>),
       date_pub_td |-> Some(<<"u", "n", "k">>)] }

ParseRows ==
    { [bookalike |-> b, title_td |-> t, author_td |-> d.author_td, cover_td |-> d.cover_td,
       num_pages_td |-> d.num_pages_td, date_pub_td |-> d.date_pub_td] :
          b \in BOOLEAN, t \in TitleCells, d \in RowDetails }

InitParse ==
    /\ IdleMain
    /\ html \in SeqsUpTo(ParseRows, MaxParseRows)
    /\ parsed = None
    /\ IdleHash /\ IdleYear

ParseShelf ==
    /\ parsed = None
    /\ parsed' = Some(parse_shelf(html))
    /\ UNCHANGED html
    /\ UNCHANGED <<mainVars, hashVars, yearVars>>

ParseSpec == InitParse /\ [][ParseShelf]_vars

-----------------------------------------------------------------------------
(* Properties *)

\* the resolved source is a shelf URL that main paginates
PaginatedSource ==
    /\ resolved.some
    /\ Get(resolved) \notin files
    /\ Contains(Get(resolved), SHELF_MARKER)

AllFetchesOk == \A i \in 1..Len(fetchLog) : fetchLog[i].ok

\* number of records parsed from the i-th fetched page
Count(i) == Len(fetchLog[i].records)

\* the records of the first n fetched pages, in page order
RECURSIVE RecordsUpTo(_)
RecordsUpTo(n) == IF n = 0 THEN <<>> ELSE RecordsUpTo(n - 1) \o fetchLog[n].records

\* per_page as given by the initial URL (10 when it gives none)
UrlPerPage == PerPage(PageQs(Get(resolved), 1))

PositivePerPage == UrlPerPage.some /\ Get(UrlPerPage) > 0

\* C1: with a positive integer per_page and every fetch succeeding, the loop
\* fetches pages 1, 2, ..., k one after the other, every page before the last
\* fetched one is non-empty and holds at least per_page records, the loop
\* has stopped exactly when the last fetched page holds fewer than per_page
\* records (none included), and what it returns and writes is the
\* concatenation, in page order, of the records of the fetched pages.
PaginationFetchesInOrder ==
    (PaginatedSource /\ AllFetchesOk /\ PositivePerPage) =>
        LET n == Len(fetchLog)
            pp == Get(UrlPerPage)
        IN  /\ \A i \in 1..n : fetchLog[i].page = i /\ RequestedPage(fetchLog[i].url) = i
            /\ \A i \in 1..(n - 1) : Count(i) > 0 /\ Count(i) >= pp
            /\ pc = "loop" =>
                  /\ page = n + 1
                  /\ n > 0 => Count(n) >= pp
                  /\ all_books = RecordsUpTo(n)
            /\ pc \in {"dump", "done"} =>
                  /\ n >= 1
                  /\ Count(n) = 0 \/ Count(n) < pp
                  /\ books = Some(RecordsUpTo(n))
            /\ pc = "done" => stdout = Some(RecordsUpTo(n))

\* a run over two full-then-short pages: per_page 2, counts 2 and 1
PaginationTwoPagesDone ==
    /\ pc = "done" /\ PaginatedSource /\ AllFetchesOk
    /\ UrlPerPage = Some(2)
    /\ Len(fetchLog) = 2 /\ Count(1) = 2 /\ Count(2) = 1
    /\ Len(Get(stdout)) = 3

\* C2: every run of main ends, written out or aborted by a failed fetch
\* (never aborted while every fetch succeeds), whatever per_page the URL
\* gives; and every pass through the loop that does not leave it raises page
\* by exactly 1.
PaginationTerminates ==
    /\ <>(pc = "done" \/ (pc = "aborted" /\ ~AllFetchesOk))
    /\ [][(pc = "loop" /\ pc' = "loop") => page' = page + 1]_vars

\* a run with per_page 0, which only the end of the shelf stops
ZeroPerPageRunDone ==
    /\ pc = "done" /\ PaginatedSource /\ AllFetchesOk
    /\ UrlPerPage = Some(0)
    /\ Len(fetchLog) = MaxPages + 1
    /\ Count(Len(fetchLog)) = 0

\* C3: a failed page fetch is the last fetch of the run: it is neither
\* retried nor skipped (page stays at the failed page), the run is aborted,
\* and nothing is written, the records of earlier pages included.
FetchFailureAborts ==
    PaginatedSource =>
        \A i \in 1..Len(fetchLog) :
            ~fetchLog[i].ok =>
                /\ i = Len(fetchLog)
                /\ pc = "aborted"
                /\ page = fetchLog[i].page
                /\ IsNone(stdout)

\* the fetch of page 2 failed after page 1 gave records
SecondPageFetchFailed ==
    /\ PaginatedSource /\ pc = "aborted"
    /\ Len(fetchLog) = 2 /\ fetchLog[1].ok /\ ~fetchLog[2].ok
    /\ all_books # <<>>
    /\ IsNone(stdout)

AllDecimalDigits(s) == s # <<>> /\ \A i \in 1..Len(s) : s[i] \in DecimalDigits

\* C4: resolve returns an existing local path unchanged, else turns an input
\* made only of decimal digits into <base>/review/list/<id>?shelf=read, and
\* returns every other input unchanged.
ResolveByDecimalDigits ==
    pc = "resolved" =>
        Get(resolved) =
            IF arg \in files THEN arg
            ELSE IF AllDecimalDigits(arg)
                 THEN GOODREADS_BASE \o REVIEW_LIST_PATH \o arg \o SHELF_READ_QUERY
            ELSE arg

BookRecordFields ==
    {"source", "externalId", "title", "authors", "pageCount", "publishedYear",
     "coverUrl", "keyHash"}

\* C5: every record parse returns carries all eight BookRecord fields, and
\* its keyHash is the hash of its own source, externalId, title and authors.
RecordsCarryAllFields ==
    parsed.some =>
        \A i \in 1..Len(Get(parsed)) :
            LET r == Get(parsed)[i]
            IN  /\ BookRecordFields \subseteq DOMAIN r
                /\ r.keyHash = Some(compute_key_hash(r.source, r.externalId, r.title, r.authors))

\* a quadruple with absent fields made empty and every field trimmed
Normalized(q) ==
    <<Strip(OrEmpty(q.source)), Strip(OrEmpty(q.external_id)),
      Strip(OrEmpty(q.title)), Strip(OrEmpty(q.authors))>>

\* C6: two quadruples get the same digest exactly when they are equal after
\* normalization.
HashSeparatesQuadruples ==
    digest1.some => ((digest1 = digest2) <=> (Normalized(quad1) = Normalized(quad2)))

\* C7: the extracted year is the value of the last 4-digit run of the text,
\* and null when the text has none.
YearIsLastFourDigitRun ==
    published_year.some => Get(published_year) = LastFourDigitRunYear(date_text)

\* the title cell of the row holds an anchor with an href
TitleCellHasHyperlink(row) ==
    /\ row.title_td.some
    /\ \E k \in 1..Len(Get(row.title_td).anchors) : Get(row.title_td).anchors[k].href.some

\* the text of the first such anchor
FirstHyperlinkText(row) ==
    LET a == Get(row.title_td).anchors
        k == CHOOSE m \in 1..Len(a) : a[m].href.some /\ \A j \in 1..(m - 1) : ~a[j].href.some
    IN  a[k].text

\* C8: parse returns one record per entry row whose title cell holds a
\* hyperlink, in document order, and none for any other row; every record
\* has a title, the trimmed text of that hyperlink.
OneRecordPerTitledRow ==
    parsed.some =>
        LET want == SelectSeq(html, LAMBDA r : r.bookalike /\ TitleCellHasHyperlink(r))
            got == Get(parsed)
        IN  /\ Len(got) = Len(want)
            /\ \A i \in 1..Len(got) :
                  /\ got[i].title.some
                  /\ Get(got[i].title) = Strip(FirstHyperlinkText(want[i]))

\* a document whose first row is to be skipped and whose second row is an entry
SkippedRowThenEntry ==
    /\ parsed.some
    /\ Len(html) = 2
    /\ html[1].bookalike /\ ~TitleCellHasHyperlink(html[1])
    /\ html[2].bookalike /\ TitleCellHasHyperlink(html[2])
    /\ Len(Get(parsed)) = 1

\* every name=value field of a query string, blank values included
RawFields(q) ==
    IF q = <<>> THEN <<>>
    ELSE [i \in 1..Len(Split(q, "&")) |-> QueryField(Split(q, "&")[i])]

OtherFields(fs) == SelectSeq(fs, LAMBDA f : f[1] \notin {PER_PAGE_KEY, PAGE_KEY})
ValuesOf(fs, k) == SelectSeq(fs, LAMBDA f : f[1] = k)

\* C9: every fetched page URL carries the query parameters of the initial
\* URL other than per_page and page unchanged, one per_page parameter whose
\* value is the one the stop test uses, and one page parameter holding the
\* page counter.
PageUrlKeepsOtherParameters ==
    PaginatedSource =>
        \A i \in 1..Len(fetchLog) :
            LET sent == RawFields(urlparse(fetchLog[i].url).query)
                given == RawFields(urlparse(Get(resolved)).query)
            IN  /\ OtherFields(sent) = OtherFields(given)
                /\ Len(ValuesOf(sent, PER_PAGE_KEY)) = 1
                /\ int(ValuesOf(sent, PER_PAGE_KEY)[1][2]) = UrlPerPage
                /\ ValuesOf(sent, PAGE_KEY) = <<<<PAGE_KEY, str(fetchLog[i].page)>>>>

\* C10 as stated: a run on a source that is not paginated never enters the
\* loop and, once over, has made exactly one fetch and exactly one parse.
OnceMeansOneFetchOneParse ==
    (resolved.some /\ ~PaginatedSource) =>
        /\ pc # "loop"
        /\ pc \in {"done", "aborted"} => Len(fetchLog) = 1 /\ parses = 1

\* C10: the loop is entered only for a paginated source; a run on any other
\* source never enters it and makes one fetch of the resolved reference,
\* followed by one parse when that fetch succeeds and by none when it fails.
SinglePassOutsidePagination ==
    /\ pc = "loop" => PaginatedSource
    /\ (resolved.some /\ ~PaginatedSource) =>
          /\ pc \in {"local", "single", "dump", "done", "aborted"}
          /\ page = 0
          /\ pc \in {"local", "single"} => fetchLog = <<>> /\ parses = 0
          /\ pc \in {"dump", "done"} =>
                /\ Len(fetchLog) = 1 /\ fetchLog[1].ok /\ parses = 1
                /\ fetchLog[1].url = Get(resolved)
          /\ pc = "aborted" => Len(fetchLog) = 1 /\ ~fetchLog[1].ok /\ parses = 0

\* a local file whose name looks like a shelf URL, loaded and parsed once
LocalFileNamedLikeShelfDone ==
    /\ pc = "done"
    /\ arg \in files
    /\ Contains(arg, SHELF_MARKER)
    /\ Len(fetchLog) = 1 /\ parses = 1

=============================================================================
